---- MODULE Spec2Model ----
(***************************************************************************)
(* Model of generate_publications.py: the BibTeX record extractor          *)
(* (parse_bibtex, parse_field_value, clean_latex), the per-record helpers  *)
(* (format_authors, get_date_for_filename, get_publication_title,          *)
(* generate_publication_slug, generate_html), the index renderer           *)
(* (generate_publications_index) and the batch driver main.                *)
(*                                                                         *)
(* A Python str is modelled as a sequence of one-character strings, so     *)
(* that scanning, slicing and the regular expressions are computed         *)
(* character by character as the code computes them.  A Python dict is a   *)
(* function whose domain is the set of its keys.                           *)
(***************************************************************************)
EXTENDS Integers, Sequences, FiniteSets, TLC

VARIABLES
    pc,            \* position of the run: which step of main comes next
    run,           \* number of the current invocation of main
    bib,           \* content of the bibliography file (str)
    publications,  \* main: the list returned by parse_bibtex
    output_dir,    \* the output directory: filename -> html written
    index_file,    \* content of the index document
    pub_links      \* main: accumulated summary objects

vars == <<pc, run, bib, publications, output_dir, index_file, pub_links>>

---------------------------------------------------------------------------
(* str helpers *)

Range(s) == {s[k] : k \in 1..Len(s)}

\* the sequences of up to n elements of A
SeqsUpTo(A, n) == UNION {[1..k -> A] : k \in 0..n}

\* s[a:b] of Python for 0 <= a, b (0-based, end exclusive), clamped to the string
Slice(s, a, b) == SubSeq(s, a + 1, IF b > Len(s) THEN Len(s) ELSE b)

\* the characters the regular-expression class \s matches
IsSpace(c) == c \in {" ", "\n", "\t"}

Digits == {"0", "1", "2", "3", "4", "5", "6", "7", "8", "9"}

LowerLetters == {"a", "b", "c", "d", "e", "f", "g", "h", "i", "j", "k", "l", "m",
                 "n", "o", "p", "q", "r", "s", "t", "u", "v", "w", "x", "y", "z"}

UpperLetters == {"A", "B", "C", "D", "E", "F", "G", "H", "I", "J", "K", "L", "M",
                 "N", "O", "P", "Q", "R", "S", "T", "U", "V", "W", "X", "Y", "Z"}

\* the characters the regular-expression class \w matches
IsWord(c) == c \in LowerLetters \cup UpperLetters \cup Digits \cup {"_"}

\* str.strip(): drop leading and trailing whitespace
RECURSIVE LStrip(_)
LStrip(s) == IF s # <<>> /\ IsSpace(s[1]) THEN LStrip(Tail(s)) ELSE s

RECURSIVE RStrip(_)
RStrip(s) == IF s # <<>> /\ IsSpace(s[Len(s)]) THEN RStrip(SubSeq(s, 1, Len(s) - 1)) ELSE s

Strip(s) == RStrip(LStrip(s))

---------------------------------------------------------------------------
(* clean_latex *)

\* re.sub(r'^[{](.+)[}]$', r'\1', text): '.' matches no newline, and '$' matches
\* at the end of the string or just before a newline that ends it.
ReSubSurrounding(t) ==
    LET n == Len(t) IN
    IF n >= 3 /\ t[1] = "{" /\ t[n] = "}" /\ "\n" \notin Range(SubSeq(t, 2, n - 1))
    THEN SubSeq(t, 2, n - 1)
    ELSE IF n >= 4 /\ t[1] = "{" /\ t[n] = "\n" /\ t[n - 1] = "}"
            /\ "\n" \notin Range(SubSeq(t, 2, n - 2))
    THEN SubSeq(t, 2, n - 2) \o <<"\n">>
    ELSE t

\* first index >= i of t that holds a brace, or Len(t) + 1
RECURSIVE NextBrace(_, _)
NextBrace(t, i) ==
    IF i > Len(t) \/ t[i] \in {"{", "}"} THEN i ELSE NextBrace(t, i + 1)

\* re.sub(r'\{([^{}]+)\}', r'\1', text), scanning from index i (1-based)
RECURSIVE ReSubSingleFrom(_, _)
ReSubSingleFrom(t, i) ==
    IF i > Len(t) THEN <<>>
    ELSE LET j == NextBrace(t, i + 1) IN
         IF t[i] = "{" /\ j > i + 1 /\ j <= Len(t) /\ t[j] = "}"
         THEN SubSeq(t, i + 1, j - 1) \o ReSubSingleFrom(t, j + 1)
         ELSE <<t[i]>> \o ReSubSingleFrom(t, i + 1)

ReSubSingle(t) == ReSubSingleFrom(t, 1)

\* the while loop of clean_latex
RECURSIVE CleanLoop(_)
CleanLoop(t) ==
    IF "{" \notin Range(t) THEN t
    ELSE LET new == ReSubSingle(ReSubSurrounding(t)) IN
         IF new = t THEN t ELSE CleanLoop(new)

\* re.sub(r'\s+', ' ', text)
RECURSIVE CollapseSpace(_)
CollapseSpace(t) ==
    IF t = <<>> THEN <<>>
    ELSE IF IsSpace(t[1])
    THEN <<" ">> \o CollapseSpace(LStrip(t))
    ELSE <<t[1]>> \o CollapseSpace(Tail(t))

clean_latex(t) ==
    IF t = <<>> THEN t ELSE Strip(CollapseSpace(CleanLoop(t)))

---------------------------------------------------------------------------
(* dict helpers and the field names the program reads *)

\* d[k] = v
DictSet(d, k, v) == [x \in DOMAIN d \cup {k} |-> IF x = k THEN v ELSE d[x]]

\* d.get(k, default)
DictGet(d, k, default) == IF k \in DOMAIN d THEN d[k] ELSE default

K_type == <<"t", "y", "p", "e">>
K_key == <<"k", "e", "y">>
K_year == <<"y", "e", "a", "r">>
K_month == <<"m", "o", "n", "t", "h">>
K_title == <<"t", "i", "t", "l", "e">>
K_author == <<"a", "u", "t", "h", "o", "r">>
K_journal == <<"j", "o", "u", "r", "n", "a", "l">>
K_booktitle == <<"b", "o", "o", "k", "t", "i", "t", "l", "e">>
K_url == <<"u", "r", "l">>
K_doi == <<"d", "o", "i">>
K_pages == <<"p", "a", "g", "e", "s">>
K_volume == <<"v", "o", "l", "u", "m", "e">>
K_number == <<"n", "u", "m", "b", "e", "r">>

---------------------------------------------------------------------------
(* int(str) and list.sort(key=..., reverse=True) *)

DigitVal(c) == CHOOSE d \in 0..9 : c = <<"0", "1", "2", "3", "4", "5", "6", "7", "8", "9">>[d + 1]

\* digits, with single underscores allowed between digits
RECURSIVE IsDigitRun(_)
IsDigitRun(s) ==
    /\ s # <<>>
    /\ s[1] \in Digits
    /\ \/ Len(s) = 1
       \/ /\ s[2] \in Digits
          /\ IsDigitRun(Tail(s))
       \/ /\ s[2] = "_"
          /\ IsDigitRun(SubSeq(s, 3, Len(s)))

RECURSIVE DigitRunVal(_, _)
DigitRunVal(s, acc) ==
    IF s = <<>> THEN acc
    ELSE IF s[1] = "_" THEN DigitRunVal(Tail(s), acc)
    ELSE DigitRunVal(Tail(s), 10 * acc + DigitVal(s[1]))

\* whether int(s) returns (otherwise it raises ValueError)
PyIntOk(s) ==
    LET t == Strip(s) IN
    /\ t # <<>>
    /\ IF t[1] \in {"+", "-"} THEN IsDigitRun(Tail(t)) ELSE IsDigitRun(t)

\* int(s), where PyIntOk(s)
PyInt(s) ==
    LET t == Strip(s) IN
    IF t[1] = "-" THEN 0 - DigitRunVal(Tail(t), 0)
    ELSE IF t[1] = "+" THEN DigitRunVal(Tail(t), 0)
    ELSE DigitRunVal(t, 0)

\* x placed in the list sorted so far, behind every element whose key is >= k
RECURSIVE InsertDesc(_, _, _, _)
InsertDesc(sorted, skeys, x, k) ==
    IF sorted = <<>> \/ skeys[1] < k
    THEN <<x>> \o sorted
    ELSE <<sorted[1]>> \o InsertDesc(Tail(sorted), Tail(skeys), x, k)

RECURSIVE InsertKeyDesc(_, _)
InsertKeyDesc(skeys, k) ==
    IF skeys = <<>> \/ skeys[1] < k
    THEN <<k>> \o skeys
    ELSE <<skeys[1]>> \o InsertKeyDesc(Tail(skeys), k)

\* list.sort(reverse=True) over precomputed keys: descending, and stable
\* (elements with equal keys keep their order); n elements already placed
RECURSIVE SortDescFrom(_, _, _, _, _)
SortDescFrom(seq, keys, n, sorted, skeys) ==
    IF n >= Len(seq) THEN sorted
    ELSE SortDescFrom(seq, keys, n + 1,
                      InsertDesc(sorted, skeys, seq[n + 1], keys[n + 1]),
                      InsertKeyDesc(skeys, keys[n + 1]))

\* a sort that descends but is not stable: it places the elements in reverse
\* order, so that elements with equal keys come out reversed
SortDescTiesReversed(seq, keys) ==
    SortDescFrom([k \in 1..Len(seq) |-> seq[Len(seq) + 1 - k]],
                 [k \in 1..Len(keys) |-> keys[Len(keys) + 1 - k]], 0, <<>>, <<>>)

SortDesc(seq, keys) == SortDescFrom(seq, keys, 0, <<>>, <<>>)

---------------------------------------------------------------------------
(* parse_field_value and parse_bibtex *)

\* s[k] of Python (0-based)
At(s, k) == s[k + 1]

\* str.lower() on the letters the model uses
LowerChar(c) ==
    IF c \in UpperLetters
    THEN CHOOSE l \in LowerLetters :
           \E k \in 1..26 :
              /\ <<"A", "B", "C", "D", "E", "F", "G", "H", "I", "J", "K", "L", "M",
                   "N", "O", "P", "Q", "R", "S", "T", "U", "V", "W", "X", "Y", "Z">>[k] = c
              /\ <<"a", "b", "c", "d", "e", "f", "g", "h", "i", "j", "k", "l", "m",
                   "n", "o", "p", "q", "r", "s", "t", "u", "v", "w", "x", "y", "z">>[k] = l
    ELSE c

Lower(s) == [k \in 1..Len(s) |-> LowerChar(s[k])]

parse_field_value(field_str) ==
    LET s == Strip(field_str) IN
    IF s # <<>> /\ s[1] = "\"" /\ s[Len(s)] = "\"" THEN Slice(s, 1, Len(s) - 1)
    ELSE IF s # <<>> /\ s[1] = "{" /\ s[Len(s)] = "}" THEN Slice(s, 1, Len(s) - 1)
    ELSE s

\* first 0-based index >= k of s whose character is not a \w character, or len(s)
RECURSIVE WordEnd(_, _)
WordEnd(s, k) == IF k < Len(s) /\ IsWord(At(s, k)) THEN WordEnd(s, k + 1) ELSE k

\* first 0-based index >= k of s whose character is not whitespace, or len(s)
RECURSIVE SpaceEnd(_, _)
SpaceEnd(s, k) == IF k < Len(s) /\ IsSpace(At(s, k)) THEN SpaceEnd(s, k + 1) ELSE k

\* s.find(c, k): first 0-based index >= k holding c, or -1
RECURSIVE Find(_, _, _)
Find(s, c, k) ==
    IF k >= Len(s) THEN -1
    ELSE IF At(s, k) = c THEN k
    ELSE Find(s, c, k + 1)

\* re.search(r'(\w+)\s*=\s*', fields[current_pos:]), with 0-based positions in
\* fields: the leftmost j >= current_pos at which a run of \w characters, then
\* whitespace, then '=' begins; end is the position after '=' and its whitespace
RECURSIVE SearchAssign(_, _)
SearchAssign(fields, j) ==
    IF j >= Len(fields) THEN [found |-> FALSE, name |-> <<>>, end |-> 0]
    ELSE LET we == WordEnd(fields, j)
             se == SpaceEnd(fields, we)
         IN IF we > j /\ se < Len(fields) /\ At(fields, se) = "="
            THEN [found |-> TRUE, name |-> Slice(fields, j, we),
                  end |-> SpaceEnd(fields, se + 1)]
            ELSE SearchAssign(fields, j + 1)

\* the loop over range(value_start, len(fields)) that looks for the matching
\* closing brace: the new value_end, or value_start when the loop ends unmatched
RECURSIVE MatchBrace(_, _, _, _)
MatchBrace(fields, value_start, i, brace_count) ==
    IF i >= Len(fields) THEN value_start
    ELSE IF At(fields, i) = "{" THEN MatchBrace(fields, value_start, i + 1, brace_count + 1)
    ELSE IF At(fields, i) = "}"
    THEN IF brace_count - 1 = 0 THEN i + 1
         ELSE MatchBrace(fields, value_start, i + 1, brace_count - 1)
    ELSE MatchBrace(fields, value_start, i + 1, brace_count)

\* value_end as lines 53-68 compute it
ValueEnd(fields, value_start) ==
    IF value_start < Len(fields)
    THEN IF At(fields, value_start) = "{"
         THEN MatchBrace(fields, value_start, value_start, 0)
         ELSE IF At(fields, value_start) = "\""
         THEN Find(fields, "\"", value_start + 1) + 1
         ELSE value_start
    ELSE value_start

\* the value stored for the raw text fields[value_start:value_end]
FieldValue(raw_value) == clean_latex(Strip(parse_field_value(raw_value)))

\* entry[field_name] = field_value
StoreField(entry, field_name, field_value) == DictSet(entry, field_name, field_value)

\* the values current_pos holds each time the condition of the while loop of
\* line 42 is evaluated, the evaluation that leaves the loop (or the one
\* followed by the break of line 47) included
RECURSIVE ScanPositions(_, _)
ScanPositions(fields, current_pos) ==
    IF current_pos >= Len(fields) THEN <<current_pos>>
    ELSE LET match == SearchAssign(fields, current_pos) IN
         IF ~match.found THEN <<current_pos>>
         ELSE LET value_start == match.end
                  value_end == ValueEnd(fields, value_start)
              IN IF value_end > value_start
                 THEN <<current_pos>> \o ScanPositions(fields, value_end)
                 ELSE <<current_pos>> \o ScanPositions(fields, current_pos + 1)

\* a field loop that gives the record up at the first field whose value
\* cannot be extracted, instead of advancing by one character
RECURSIVE ParseFieldsAbortOnFailure(_, _, _)
ParseFieldsAbortOnFailure(fields, current_pos, entry) ==
    IF current_pos >= Len(fields) THEN entry
    ELSE LET match == SearchAssign(fields, current_pos) IN
         IF ~match.found THEN entry
         ELSE LET field_name == Lower(match.name)
                  value_start == match.end
                  value_end == ValueEnd(fields, value_start)
              IN IF value_end > value_start
                 THEN ParseFieldsAbortOnFailure(fields, value_end,
                          StoreField(entry, field_name,
                                     FieldValue(Slice(fields, value_start, value_end))))
                 ELSE entry

\* the while loop over the body of one record
RECURSIVE ParseFields(_, _, _)
ParseFields(fields, current_pos, entry) ==
    IF current_pos >= Len(fields) THEN entry
    ELSE LET match == SearchAssign(fields, current_pos) IN
         IF ~match.found THEN entry
         ELSE LET field_name == Lower(match.name)
                  value_start == match.end
                  value_end == ValueEnd(fields, value_start)
              IN IF value_end > value_start
                 THEN ParseFields(fields, value_end,
                                  StoreField(entry, field_name,
                                             FieldValue(Slice(fields, value_start, value_end))))
                 ELSE ParseFields(fields, current_pos + 1, entry)

\* first 1-based index >= i of c that holds ',', or Len(c) + 1
RECURSIVE NextComma(_, _)
NextComma(c, i) == IF i > Len(c) \/ c[i] = "," THEN i ELSE NextComma(c, i + 1)

\* first 1-based index p >= i of c with c[p] = '\n' and c[p + 1] = '}', or 0
NextClose(c, i) ==
    LET ps == {p \in i..(Len(c) - 1) : c[p] = "\n" /\ c[p + 1] = "}"} IN
    IF ps = {} THEN 0 ELSE CHOOSE p \in ps : \A q \in ps : p <= q

\* the match of r'@(\w+)\{([^,]+),(.+?)\n\}' (DOTALL) that begins at the
\* 1-based index i of c, if any; next is the index after the match
MatchEntry(c, i) ==
    LET w == WordEnd(c, i) + 1       \* index after the \w+ run that follows '@'
        k == NextComma(c, w + 1)     \* the comma that ends the key
        p == NextClose(c, k + 2)     \* the '\n}' that ends a body of >= 1 character
    IN IF /\ c[i] = "@"
          /\ w > i + 1 /\ w <= Len(c) /\ c[w] = "{"
          /\ k > w + 1 /\ k <= Len(c)
          /\ p # 0
       THEN [ok |-> TRUE, entry_type |-> SubSeq(c, i + 1, w - 1),
             key |-> SubSeq(c, w + 1, k - 1), fields |-> SubSeq(c, k + 1, p - 1),
             next |-> p + 2]
       ELSE [ok |-> FALSE, entry_type |-> <<>>, key |-> <<>>, fields |-> <<>>, next |-> i + 1]

\* re.findall: the non-overlapping matches, leftmost first
RECURSIVE FindAll(_, _)
FindAll(c, i) ==
    IF i > Len(c) THEN <<>>
    ELSE LET m == MatchEntry(c, i) IN
         IF m.ok THEN <<m>> \o FindAll(c, m.next) ELSE FindAll(c, i + 1)

\* entry = {'type': entry_type, 'key': key}
NewEntry(entry_type, key) == (K_type :> entry_type) @@ (K_key :> key)

\* the publications list as it stands before the sort of line 82
Entries(content) ==
    LET ms == FindAll(content, 1) IN
    [n \in 1..Len(ms) |-> ParseFields(ms[n].fields, 0, NewEntry(ms[n].entry_type, ms[n].key))]

\* the sort key of line 82
YearText(x) == DictGet(x, K_year, <<"0">>)

\* publications.sort(key=lambda x: int(x.get('year', '0')), reverse=True)
SortPublications(pubs) == SortDesc(pubs, [n \in 1..Len(pubs) |-> PyInt(YearText(pubs[n]))])

\* parse_bibtex: the list returned, or the exception that leaves it
parse_bibtex(content) ==
    LET pubs == Entries(content) IN
    IF \A n \in 1..Len(pubs) : PyIntOk(YearText(pubs[n]))
    THEN [raised |-> FALSE, value |-> SortPublications(pubs)]
    ELSE [raised |-> TRUE, value |-> <<>>]

---------------------------------------------------------------------------
(* format_authors, get_date_for_filename, get_publication_title,
   generate_publication_slug, generate_html *)

S_Untitled == <<"U", "n", "t", "i", "t", "l", "e", "d">>
S_untitled == <<"u", "n", "t", "i", "t", "l", "e", "d">>
S_UnknownAuthor == <<"U", "n", "k", "n", "o", "w", "n", " ", "A", "u", "t", "h", "o", "r">>
S_nd == <<"n", ".", "d", ".">>
S_Unknown == <<"U", "n", "k", "n", "o", "w", "n">>
S_and == <<" ", "a", "n", "d", " ">>
S_comma_and == <<",", " ", "a", "n", "d", " ">>
S_html == <<".", "h", "t", "m", "l">>

\* whether sep occurs in s at the 1-based index i
OccursAt(s, sep, i) == i + Len(sep) - 1 <= Len(s) /\ SubSeq(s, i, i + Len(sep) - 1) = sep

\* s.split(sep): the pieces between the occurrences of sep, scanning from
\* index i with the piece begun at index start
RECURSIVE SplitFrom(_, _, _, _)
SplitFrom(s, sep, start, i) ==
    IF i > Len(s) THEN <<SubSeq(s, start, Len(s))>>
    ELSE IF OccursAt(s, sep, i)
    THEN <<SubSeq(s, start, i - 1)>> \o SplitFrom(s, sep, i + Len(sep), i + Len(sep))
    ELSE SplitFrom(s, sep, start, i + 1)

Split(s, sep) == SplitFrom(s, sep, 1, 1)

\* sep.join(parts)
RECURSIVE Join(_, _)
Join(sep, parts) ==
    IF parts = <<>> THEN <<>>
    ELSE IF Len(parts) = 1 THEN parts[1]
    ELSE parts[1] \o sep \o Join(sep, Tail(parts))

format_authors(authors_str) ==
    IF authors_str = <<>> THEN <<>>
    ELSE LET pieces == Split(authors_str, S_and)
             authors == [k \in 1..Len(pieces) |-> Strip(pieces[k])]
         IN IF Len(authors) = 1 THEN authors[1]
            ELSE IF Len(authors) = 2 THEN authors[1] \o S_and \o authors[2]
            ELSE Join(<<",", " ">>, SubSeq(authors, 1, Len(authors) - 1))
                 \o S_comma_and \o authors[Len(authors)]

\* the table of lines 127-140
months ==
    (<<"j", "a", "n">> :> <<"0", "1">>) @@
    (<<"j", "a", "n", "u", "a", "r", "y">> :> <<"0", "1">>) @@
    (<<"f", "e", "b">> :> <<"0", "2">>) @@
    (<<"f", "e", "b", "r", "u", "a", "r", "y">> :> <<"0", "2">>) @@
    (<<"m", "a", "r">> :> <<"0", "3">>) @@
    (<<"m", "a", "r", "c", "h">> :> <<"0", "3">>) @@
    (<<"a", "p", "r">> :> <<"0", "4">>) @@
    (<<"a", "p", "r", "i", "l">> :> <<"0", "4">>) @@
    (<<"m", "a", "y">> :> <<"0", "5">>) @@
    (<<"j", "u", "n">> :> <<"0", "6">>) @@
    (<<"j", "u", "n", "e">> :> <<"0", "6">>) @@
    (<<"j", "u", "l">> :> <<"0", "7">>) @@
    (<<"j", "u", "l", "y">> :> <<"0", "7">>) @@
    (<<"a", "u", "g">> :> <<"0", "8">>) @@
    (<<"a", "u", "g", "u", "s", "t">> :> <<"0", "8">>) @@
    (<<"s", "e", "p">> :> <<"0", "9">>) @@
    (<<"s", "e", "p", "t", "e", "m", "b", "e", "r">> :> <<"0", "9">>) @@
    (<<"o", "c", "t">> :> <<"1", "0">>) @@
    (<<"o", "c", "t", "o", "b", "e", "r">> :> <<"1", "0">>) @@
    (<<"n", "o", "v">> :> <<"1", "1">>) @@
    (<<"n", "o", "v", "e", "m", "b", "e", "r">> :> <<"1", "1">>) @@
    (<<"d", "e", "c">> :> <<"1", "2">>) @@
    (<<"d", "e", "c", "e", "m", "b", "e", "r">> :> <<"1", "2">>)

\* str.isdigit() on the characters the model uses
IsDigit(s) == s # <<>> /\ \A k \in 1..Len(s) : s[k] \in Digits

\* f"{month:0>2}": padded on the left with '0' to a width of two
PadTwo(s) ==
    IF Len(s) >= 2 THEN s
    ELSE IF Len(s) = 1 THEN <<"0">> \o s
    ELSE <<"0", "0">>

\* the month part that get_date_for_filename prints
MonthPart(month) ==
    IF Lower(month) \in DOMAIN months THEN months[Lower(month)]
    ELSE IF ~IsDigit(month) THEN <<"0", "1">>
    ELSE month

get_date_for_filename(pub) ==
    LET year == DictGet(pub, K_year, <<"2", "0", "2", "0">>)
        month == DictGet(pub, K_month, <<"0", "1">>)
    IN year \o <<"-">> \o PadTwo(MonthPart(month))

get_publication_title(pub) == Strip(clean_latex(DictGet(pub, K_title, S_Untitled)))

\* str.split(): the maximal runs of non-whitespace characters
RECURSIVE Words(_)
Words(s) ==
    LET t == LStrip(s) IN
    IF t = <<>> THEN <<>>
    ELSE LET e == CHOOSE k \in 1..Len(t) + 1 :
                    /\ k > Len(t) \/ IsSpace(t[k])
                    /\ \A m \in 1..k - 1 : ~IsSpace(t[m])
         IN <<SubSeq(t, 1, e - 1)>> \o Words(SubSeq(t, e, Len(t)))

generate_publication_slug(pub) ==
    LET title == Lower(DictGet(pub, K_title, S_untitled))
        slug == SelectSeq(title, LAMBDA c : c \in LowerLetters \cup Digits \/ IsSpace(c))
        words == Words(slug)
    IN Join(<<"-">>, SubSeq(words, 1, IF Len(words) > 5 THEN 5 ELSE Len(words)))

\* journal = pub.get('journal', pub.get('booktitle', 'Unknown'))
Venue(pub) == DictGet(pub, K_journal, DictGet(pub, K_booktitle, S_Unknown))

\* generate_html: the document is the fixed template with these values
\* substituted, so it is represented by the values
generate_html(pub) ==
    LET title == get_publication_title(pub)
        date_str == get_date_for_filename(pub)
        slug == generate_publication_slug(pub)
    IN [html |-> [title |-> title,
                  date_str |-> date_str,
                  pub_key |-> slug,
                  authors |-> format_authors(DictGet(pub, K_author, S_UnknownAuthor)),
                  year |-> DictGet(pub, K_year, S_nd),
                  journal |-> Venue(pub),
                  url |-> DictGet(pub, K_url, <<>>),
                  doi |-> DictGet(pub, K_doi, <<>>),
                  pages |-> DictGet(pub, K_pages, <<>>),
                  volume |-> DictGet(pub, K_volume, <<>>),
                  number |-> DictGet(pub, K_number, <<>>)],
        date_str |-> date_str,
        pub_key |-> slug]

---------------------------------------------------------------------------
(* generate_publications_index *)

S_article == <<"a", "r", "t", "i", "c", "l", "e">>
S_book == <<"b", "o", "o", "k">>
S_inproceedings == <<"i", "n", "p", "r", "o", "c", "e", "e", "d", "i", "n", "g", "s">>
S_conference == <<"c", "o", "n", "f", "e", "r", "e", "n", "c", "e">>
S_incollection == <<"i", "n", "c", "o", "l", "l", "e", "c", "t", "i", "o", "n">>
S_phdthesis == <<"p", "h", "d", "t", "h", "e", "s", "i", "s">>
S_misc == <<"m", "i", "s", "c">>

\* The index document is a sequence of pieces.  The two anchor substrings the
\* function searches for are pieces of their own; any other stretch of the
\* pre-existing document is a "text" piece; the pieces the function writes are
\* the opening (which begins with the archive anchor), the headings, the
\* entries and the closing lines.
Piece(kind) == [kind |-> kind, val |-> <<>>]

\* '<div class="archive">'
ArchiveAnchor == Piece("archive_anchor")

\* '  </div>\n</div>\n\n\n    <div class="page__footer">'
FooterAnchor == Piece("footer_anchor")

\* the page title and the Google Scholar line that follow the archive anchor
Intro == Piece("intro")

\* '\n  </div>\n</div>\n'
Closing == Piece("closing")

\* str.find of an anchor: the 0-based index of its first occurrence, or -1
RECURSIVE FindPiece(_, _, _)
FindPiece(doc, anchor, k) ==
    IF k >= Len(doc) THEN -1
    ELSE IF At(doc, k) = anchor THEN k
    ELSE FindPiece(doc, anchor, k + 1)

\* build_pub_entry: the entry shows the link (the filename without '.html'),
\* the title, the journal, the year and the authors
build_pub_entry(pub) ==
    [kind |-> "entry",
     val |-> <<Slice(pub.filename, 0, Len(pub.filename) - 5), pub.title, pub.journal,
               pub.year, pub.authors>>]

Entry(pubs) == [k \in 1..Len(pubs) |-> build_pub_entry(pubs[k])]

\* a group of the index: its heading and its entries, or nothing when empty
Section(heading, pubs) ==
    IF pubs # <<>> THEN <<Piece(heading)>> \o Entry(pubs) ELSE <<>>

\* the last group: 'for pub in misc + others'
OtherSection(misc, others) ==
    IF misc # <<>> \/ others # <<>>
    THEN <<Piece("h2 Other Publications")>> \o Entry(misc \o others)
    ELSE <<>>

\* pub_links.sort(key=lambda x: int(x['year']), reverse=True)
SortLinks(links) == SortDesc(links, [n \in 1..Len(links) |-> PyInt(links[n].year)])

\* the content region built from the sorted list
IndexContent(sorted) ==
    LET articles == SelectSeq(sorted, LAMBDA p : p.type \in {S_article})
        books == SelectSeq(sorted, LAMBDA p : p.type \in {S_book})
        inproceedings == SelectSeq(sorted, LAMBDA p : p.type \in {S_inproceedings, S_conference})
        incollections == SelectSeq(sorted, LAMBDA p : p.type \in {S_incollection})
        others == SelectSeq(sorted, LAMBDA p : p.type \notin
                     {S_article, S_book, S_inproceedings, S_conference,
                      S_incollection, S_phdthesis, S_misc})
        thesis == SelectSeq(sorted, LAMBDA p : p.type \in {S_phdthesis})
        misc == SelectSeq(sorted, LAMBDA p : p.type \in {S_misc})
    IN <<ArchiveAnchor, Intro>>
       \o Section("h2 Journal Articles", articles)
       \o Section("h2 Book Chapters", incollections)
       \o Section("h2 Conference Papers", inproceedings)
       \o Section("h2 Theses", thesis)
       \o OtherSection(misc, others)
       \o <<Closing>>

\* header = original[:header_end] if header_end != -1 else original
Header(original) ==
    LET header_end == FindPiece(original, ArchiveAnchor, 0) IN
    IF header_end # -1 THEN Slice(original, 0, header_end) ELSE original

\* a footer that begins behind the footer anchor instead of at it
FooterBehindAnchor(original) ==
    LET footer_start == FindPiece(original, FooterAnchor, 0) IN
    IF footer_start # -1 THEN Slice(original, footer_start + 1, Len(original)) ELSE <<>>

\* footer = original[footer_start:] if footer_start != -1 else ''
Footer(original) ==
    LET footer_start == FindPiece(original, FooterAnchor, 0) IN
    IF footer_start # -1 THEN Slice(original, footer_start, Len(original)) ELSE <<>>

\* generate_publications_index: the document written, or the exception of the
\* sort, which is raised before the file is read
generate_publications_index(original, links) ==
    IF \A n \in 1..Len(links) : PyIntOk(links[n].year)
    THEN [raised |-> FALSE,
          value |-> Header(original) \o IndexContent(SortLinks(links)) \o Footer(original)]
    ELSE [raised |-> TRUE, value |-> original]

---------------------------------------------------------------------------
(* main: one run of the generator, and its re-runs *)

\* bound: the largest number of records in a bibliography file that is parsed
MaxEntries == 3

\* bound: the largest number of records in a bibliography file that is run
\* through the whole of main
MaxPubs == 2

\* bound: the number of times main is run on the unchanged input
MaxRuns == 2

\* bound: the largest number of pieces of a pre-existing index document
MaxDocLen == 3

\* bound: the largest number of fields in the body of a record whose field
\* loop is followed
MaxFields == 3

(* The records the bibliography file is made of. *)

\* '@article{a1,\n title = {On {GF}(2)},\n author = {A and B and C},\n year = {2021},\n month = {13},\n journal = {J}\n}\n'
R_article21 == <<"@", "a", "r", "t", "i", "c", "l", "e", "{", "a", "1", ",", "\n", " ", "t", "i",
    "t", "l", "e", " ", "=", " ", "{", "O", "n", " ", "{", "G", "F", "}", "(", "2", ")", "}",
    ",", "\n", " ", "a", "u", "t", "h", "o", "r", " ", "=", " ", "{", "A", " ", "a", "n", "d",
    " ", "B", " ", "a", "n", "d", " ", "C", "}", ",", "\n", " ", "y", "e", "a", "r", " ", "=",
    " ", "{", "2", "0", "2", "1", "}", ",", "\n", " ", "m", "o", "n", "t", "h", " ", "=", " ",
    "{", "1", "3", "}", ",", "\n", " ", "j", "o", "u", "r", "n", "a", "l", " ", "=", " ", "{",
    "J", "}", "\n", "}", "\n">>

\* '@misc{m1,\n title = "T",\n year = {2019}\n}\n'
R_misc19 == <<"@", "m", "i", "s", "c", "{", "m", "1", ",", "\n", " ", "t", "i", "t", "l", "e",
    " ", "=", " ", "\"", "T", "\"", ",", "\n", " ", "y", "e", "a", "r", " ", "=", " ", "{", "2",
    "0", "1", "9", "}", "\n", "}", "\n">>

\* '@techreport{t1,\n year = {2021}\n}\n'
R_techreport21 == <<"@", "t", "e", "c", "h", "r", "e", "p", "o", "r", "t", "{", "t", "1", ",",
    "\n", " ", "y", "e", "a", "r", " ", "=", " ", "{", "2", "0", "2", "1", "}", "\n", "}", "\n">>

\* '@phdthesis{p1,\n type = {},\n year = {2019}\n}\n'
R_phdthesis19 == <<"@", "p", "h", "d", "t", "h", "e", "s", "i", "s", "{", "p", "1", ",", "\n",
    " ", "t", "y", "p", "e", " ", "=", " ", "{", "}", ",", "\n", " ", "y", "e", "a", "r", " ",
    "=", " ", "{", "2", "0", "1", "9", "}", "\n", "}", "\n">>

\* '@book{b1,\n Year = {2019},\n month = jan\n}\n'
R_book19 == <<"@", "b", "o", "o", "k", "{", "b", "1", ",", "\n", " ", "Y", "e", "a", "r", " ",
    "=", " ", "{", "2", "0", "1", "9", "}", ",", "\n", " ", "m", "o", "n", "t", "h", " ", "=",
    " ", "j", "a", "n", "\n", "}", "\n">>

\* '@inproceedings{c1,\n booktitle = {Proc}\n}\n'
R_inproceedings == <<"@", "i", "n", "p", "r", "o", "c", "e", "e", "d", "i", "n", "g", "s", "{",
    "c", "1", ",", "\n", " ", "b", "o", "o", "k", "t", "i", "t", "l", "e", " ", "=", " ", "{",
    "P", "r", "o", "c", "}", "\n", "}", "\n">>

\* '@incollection{i1,\n title = {{A} and {B}},\n year = {0}\n}\n'
R_incollection0 == <<"@", "i", "n", "c", "o", "l", "l", "e", "c", "t", "i", "o", "n", "{", "i",
    "1", ",", "\n", " ", "t", "i", "t", "l", "e", " ", "=", " ", "{", "{", "A", "}", " ", "a",
    "n", "d", " ", "{", "B", "}", "}", ",", "\n", " ", "y", "e", "a", "r", " ", "=", " ", "{",
    "0", "}", "\n", "}", "\n">>

\* '@article{a2,\n year = {in press}\n}\n'
R_inpress == <<"@", "a", "r", "t", "i", "c", "l", "e", "{", "a", "2", ",", "\n", " ", "y", "e",
    "a", "r", " ", "=", " ", "{", "i", "n", " ", "p", "r", "e", "s", "s", "}", "\n", "}", "\n">>

\* '@misc{e1,\n}\n'
R_empty == <<"@", "m", "i", "s", "c", "{", "e", "1", ",", "\n", "}", "\n">>

\* old_files of lines 551-556
old1 == <<"2", "0", "0", "9", "-", "1", "0", "-", "0", "1", "-", "p", "a", "p", "e", "r", "-",
    "t", "i", "t", "l", "e", "-", "n", "u", "m", "b", "e", "r", "-", "1", ".", "h", "t", "m",
    "l">>
old2 == <<"2", "0", "1", "0", "-", "1", "0", "-", "0", "1", "-", "p", "a", "p", "e", "r", "-",
    "t", "i", "t", "l", "e", "-", "n", "u", "m", "b", "e", "r", "-", "2", ".", "h", "t", "m",
    "l">>
old3 == <<"2", "0", "1", "5", "-", "1", "0", "-", "0", "1", "-", "p", "a", "p", "e", "r", "-",
    "t", "i", "t", "l", "e", "-", "n", "u", "m", "b", "e", "r", "-", "3", ".", "h", "t", "m",
    "l">>
old4 == <<"2", "0", "2", "4", "-", "0", "2", "-", "1", "7", "-", "p", "a", "p", "e", "r", "-",
    "t", "i", "t", "l", "e", "-", "n", "u", "m", "b", "e", "r", "-", "4", ".", "h", "t", "m",
    "l">>

\* the records of the files that are run through the whole of main
Palette == {R_article21, R_misc19, R_techreport21, R_phdthesis19, R_book19,
            R_inproceedings, R_incollection0, R_inpress}

\* the records of the files that are parsed: these, and the record without fields
ParsePalette == Palette \cup {R_empty}

(* The fields the body of one record is made of: two well-formed ones and
   four whose value cannot be extracted. *)

\* '\n Ab = {x},'
F_brace == <<"\n", " ", "A", "b", " ", "=", " ", "{", "x", "}", ",">>

\* '\n q = "y",'
F_quote == <<"\n", " ", "q", " ", "=", " ", "\"", "y", "\"", ",">>

\* '\n m = jan,'
F_bare == <<"\n", " ", "m", " ", "=", " ", "j", "a", "n", ",">>

\* '\n u = {w,'
F_openbrace == <<"\n", " ", "u", " ", "=", " ", "{", "w", ",">>

\* '\n v = "z,'
F_openquote == <<"\n", " ", "v", " ", "=", " ", "\"", "z", ",">>

\* '\n e ='
F_novalue == <<"\n", " ", "e", " ", "=">>

FieldPalette == {F_brace, F_quote, F_bare, F_openbrace, F_openquote, F_novalue}

\* '@misc{k1,'
RecordHead == <<"@", "m", "i", "s", "c", "{", "k", "1", ",">>

\* '\n}\n'
RecordTail == <<"\n", "}", "\n">>

RECURSIVE Concat(_)
Concat(parts) == IF parts = <<>> THEN <<>> ELSE parts[1] \o Concat(Tail(parts))

\* the bibliography files of up to n of the given records, one after the other
BibFiles(records, n) == {Concat(parts) : parts \in SeqsUpTo(records, n)}

\* the bibliography files of one record whose body is 1..n of the given fields
FieldRecords(field_texts, n) ==
    {RecordHead \o Concat(parts) \o RecordTail :
        parts \in SeqsUpTo(field_texts, n) \ {<<>>}}

old_files == {old1, old2, old3, old4}

\* a legacy placeholder page
OldPage == [title |-> <<"o", "l", "d">>, date_str |-> <<>>, pub_key |-> <<>>, authors |-> <<>>,
            year |-> <<>>, journal |-> <<>>, url |-> <<>>, doi |-> <<>>, pages |-> <<>>,
            volume |-> <<>>, number |-> <<>>]

\* the output directory before the first run: empty, or holding a placeholder
OutputDirs == {<<>>, (old1 :> OldPage)}

\* the index document as the site template ships it: header, content region
\* between the two anchors, footer
TemplateIndex == <<Piece("text"), ArchiveAnchor, Piece("text"), FooterAnchor, Piece("text")>>

\* any pre-existing index document of up to MaxDocLen pieces
IndexDocs == SeqsUpTo({Piece("text"), ArchiveAnchor, FooterAnchor}, MaxDocLen)

Init ==
    /\ pc = "parse"
    /\ run = 1
    /\ \/ /\ bib \in BibFiles(Palette, MaxPubs)
          /\ index_file = TemplateIndex
          /\ output_dir \in OutputDirs
       \/ /\ bib \in BibFiles(Palette, 1)
          /\ index_file \in IndexDocs
          /\ output_dir = <<>>
    /\ publications = <<>>
    /\ pub_links = <<>>

\* lines 547: publications = parse_bibtex(bib_file); an exception ends the run
ParseBibtex ==
    /\ pc = "parse"
    /\ LET r == parse_bibtex(bib) IN
       /\ publications' = r.value
       /\ pc' = IF r.raised THEN "raised" ELSE "delete"
    /\ UNCHANGED <<run, bib, output_dir, index_file, pub_links>>

\* lines 558-562: the loop that removes the legacy placeholder files
DeleteOldFiles ==
    /\ pc = "delete"
    /\ output_dir' = [f \in DOMAIN output_dir \ old_files |-> output_dir[f]]
    /\ pc' = "generate"
    /\ UNCHANGED <<run, bib, publications, index_file, pub_links>>

\* the summary object of lines 580-587
PubLink(pub, filename) ==
    [filename |-> filename,
     title |-> get_publication_title(pub),
     journal |-> Venue(pub),
     year |-> DictGet(pub, K_year, S_nd),
     type |-> DictGet(pub, K_type, S_article),
     authors |-> format_authors(DictGet(pub, K_author, S_UnknownAuthor))]

\* lines 567-589: one iteration of the loop over publications
GeneratePage ==
    /\ pc = "generate"
    /\ Len(pub_links) < Len(publications)
    /\ LET pub == publications[Len(pub_links) + 1]
           g == generate_html(pub)
           filename == g.date_str \o <<"-">> \o g.pub_key \o S_html
       IN /\ output_dir' = DictSet(output_dir, filename, g.html)
          /\ pub_links' = Append(pub_links, PubLink(pub, filename))
    /\ UNCHANGED <<pc, run, bib, publications, index_file>>

\* line 593: generate_publications_index(index_file, pub_links), which sorts
\* the list in place and rewrites the index document unless the sort raises
GenerateIndex ==
    /\ pc = "generate"
    /\ Len(pub_links) = Len(publications)
    /\ LET r == generate_publications_index(index_file, pub_links) IN
       /\ index_file' = r.value
       /\ pub_links' = IF r.raised THEN pub_links ELSE SortLinks(pub_links)
       /\ pc' = IF r.raised THEN "raised" ELSE "done"
    /\ UNCHANGED <<run, bib, publications, output_dir>>

\* the generator is started again on the unchanged bibliography file
Rerun ==
    /\ pc \in {"done", "raised"}
    /\ run < MaxRuns
    /\ run' = run + 1
    /\ pc' = "parse"
    /\ publications' = <<>>
    /\ pub_links' = <<>>
    /\ UNCHANGED <<bib, output_dir, index_file>>

Next ==
    \/ ParseBibtex
    \/ DeleteOldFiles
    \/ GeneratePage
    \/ GenerateIndex
    \/ Rerun

Spec == Init /\ [][Next]_vars

---------------------------------------------------------------------------
(* parse_bibtex alone, on the longer bibliography files *)

InitParse ==
    /\ pc = "parse"
    /\ run = 1
    /\ bib \in BibFiles(ParsePalette, MaxEntries)
    /\ index_file = TemplateIndex
    /\ output_dir = <<>>
    /\ publications = <<>>
    /\ pub_links = <<>>

NextParse == ParseBibtex

SpecParse == InitParse /\ [][NextParse]_vars

(* parse_bibtex on a file of one record, whose field loop may meet fields
   whose value cannot be extracted *)

InitFields ==
    /\ pc = "parse"
    /\ run = 1
    /\ bib \in FieldRecords(FieldPalette, MaxFields)
    /\ index_file = TemplateIndex
    /\ output_dir = <<>>
    /\ publications = <<>>
    /\ pub_links = <<>>

NextFields == ParseBibtex

SpecFields == InitFields /\ [][NextFields]_vars

---------------------------------------------------------------------------
(* Properties *)

BraceFree(t) == "{" \notin Range(t) /\ "}" \notin Range(t)

\* C1: clean_latex removes every brace of a brace-balanced input, so that
\* every field value parse_bibtex stores is free of braces.  (The values of
\* the records the files are made of are all brace-balanced.)
C1_StoredFieldValuesAreBraceFree ==
    pc = "delete" =>
        \A n \in 1..Len(publications) :
           \A k \in DOMAIN publications[n] : BraceFree(publications[n][k])

\* the numeric year of a record, a record without a year field counting as 0
YearKey(p) == IF K_year \in DOMAIN p THEN PyInt(p[K_year]) ELSE 0

\* the years that occur among the records of a list
YearKeys(pubs) == {YearKey(pubs[n]) : n \in 1..Len(pubs)}

\* the records of a list that have the year y, in the order of the list
OfYear(pubs, y) == SelectSeq(pubs, LAMBDA p : YearKey(p) = y)

\* C2: the list parse_bibtex returns is the stable sort of the records in file
\* order by descending numeric year: adjacent records descend, a record
\* without a year counts as year 0, and the records of one year keep the
\* order they have in the file.
C2_ReturnedListIsStableSortByYear ==
    pc = "delete" =>
        LET file_order == Entries(bib) IN
        /\ Len(publications) = Len(file_order)
        /\ \A n \in 1..Len(publications) - 1 :
              YearKey(publications[n]) >= YearKey(publications[n + 1])
        /\ \A y \in YearKeys(file_order) :
              OfYear(publications, y) = OfYear(file_order, y)

\* C2 witness: parse_bibtex has returned three records in another order than
\* the file's, two of them of the same year, one of these without a year field.
C2_Witness ==
    /\ pc = "delete"
    /\ Len(publications) = 3
    /\ publications # Entries(bib)
    /\ \E m, n \in 1..3 :
          /\ m < n
          /\ K_year \notin DOMAIN publications[m]
          /\ K_year \in DOMAIN publications[n]
          /\ YearKey(publications[m]) = YearKey(publications[n])

\* whether the record has a year field whose value int() does not accept
NonNumericYear(p) == K_year \in DOMAIN p /\ ~PyIntOk(p[K_year])

\* the year of a record, a missing or non-numeric year counting as 0
YearOrZero(p) == IF K_year \in DOMAIN p /\ PyIntOk(p[K_year]) THEN PyInt(p[K_year]) ELSE 0

\* C3: parsing never raises on a record whose year is not numeric: it returns,
\* with every record in the list, the non-numeric year counting as 0 and so
\* standing behind every record with a positive year.
C3_NonNumericYearDoesNotRaise ==
    (pc # "parse" /\ \E n \in 1..Len(Entries(bib)) : NonNumericYear(Entries(bib)[n])) =>
        /\ pc # "raised"
        /\ Len(publications) = Len(Entries(bib))
        /\ \A m, n \in 1..Len(publications) :
              (NonNumericYear(publications[m]) /\ YearOrZero(publications[n]) > 0) => n < m

\* whether the record lacks one of title, author, year, journal
LacksField(p) == \E k \in {K_title, K_author, K_year, K_journal} : k \notin DOMAIN p

\* C4: for every parsed record that lacks any of title, author, year or
\* journal, generate_html and then generate_publications_index complete
\* without raising: once parse_bibtex has returned such a record, the run
\* does not end in an exception, and the summary objects carry the
\* placeholders for the missing values.
C4_RenderingWithPlaceholdersSucceeds ==
    (\E n \in 1..Len(publications) : LacksField(publications[n])) =>
        /\ pc # "raised"
        /\ pc = "generate" =>
              \A n \in 1..Len(pub_links) :
                 LET p == publications[n] IN
                 /\ K_title \notin DOMAIN p => pub_links[n].title = S_Untitled
                 /\ K_author \notin DOMAIN p => pub_links[n].authors = S_UnknownAuthor
                 /\ K_year \notin DOMAIN p => pub_links[n].year = S_nd
                 /\ (K_journal \notin DOMAIN p /\ K_booktitle \notin DOMAIN p)
                       => pub_links[n].journal = S_Unknown

\* the heading under which the index is to show a summary object of type t
GroupOfType(t) ==
    IF t = S_article THEN "h2 Journal Articles"
    ELSE IF t = S_incollection THEN "h2 Book Chapters"
    ELSE IF t \in {S_inproceedings, S_conference} THEN "h2 Conference Papers"
    ELSE IF t = S_phdthesis THEN "h2 Theses"
    ELSE "h2 Other Publications"

Headings == <<"h2 Journal Articles", "h2 Book Chapters", "h2 Conference Papers",
              "h2 Theses", "h2 Other Publications">>

IsHeading(piece) == \E h \in 1..Len(Headings) : piece.kind = Headings[h]

\* the positions of the index document that hold the entry of a summary object
EntryPositions(doc, link) == {k \in 1..Len(doc) : doc[k] = build_pub_entry(link)}

\* the heading an entry at position k stands under: the nearest one before it
HeadingOf(doc, k) ==
    LET before == {j \in 1..k : IsHeading(doc[j])} IN
    IF before = {} THEN "none"
    ELSE doc[CHOOSE j \in before : \A i \in before : i <= j].kind

\* C5: the index shows every summary object exactly once, under the heading
\* of its type: article, incollection, inproceedings/conference and phdthesis
\* under their own headings, misc and every other type under Other.
C5_EveryLinkInExactlyOneGroup ==
    pc = "done" =>
        \A n \in 1..Len(pub_links) :
           LET link == pub_links[n]
               same == {m \in 1..Len(pub_links) :
                          build_pub_entry(pub_links[m]) = build_pub_entry(link)}
               at == EntryPositions(index_file, link)
           IN /\ Cardinality(at) = Cardinality(same)
              /\ \A k \in at : HeadingOf(index_file, k) = GroupOfType(link.type)

\* the year an entry of the index shows
EntryYear(piece) == PyInt(piece.val[4])

\* C6: in every group of the index, the Other group included, the entries
\* stand in descending year; entries of one year stand in the order of the
\* link list; the headings stand in the order Journal Articles, Book Chapters,
\* Conference Papers, Theses, Other; and every heading has an entry under it.
C6_GroupsDescendByYear ==
    pc = "done" =>
        /\ \A j, k \in 1..Len(index_file) :
              (/\ j < k
               /\ index_file[j].kind = "entry"
               /\ index_file[k].kind = "entry"
               /\ HeadingOf(index_file, j) = HeadingOf(index_file, k))
              => /\ EntryYear(index_file[j]) >= EntryYear(index_file[k])
                 /\ EntryYear(index_file[j]) = EntryYear(index_file[k])
                       => \E m, n \in 1..Len(pub_links) :
                             /\ m <= n
                             /\ build_pub_entry(pub_links[m]) = index_file[j]
                             /\ build_pub_entry(pub_links[n]) = index_file[k]
        /\ \A j, k \in 1..Len(index_file) :
              (j < k /\ IsHeading(index_file[j]) /\ IsHeading(index_file[k]))
              => \E g, h \in 1..Len(Headings) :
                    g < h /\ index_file[j].kind = Headings[g] /\ index_file[k].kind = Headings[h]
        /\ \A j \in 1..Len(index_file) :
              IsHeading(index_file[j])
              => (j < Len(index_file) /\ index_file[j + 1].kind = "entry")

\* the part of a YYYY-MM string behind its last '-'
RECURSIVE AfterLastDash(_)
AfterLastDash(s) ==
    IF "-" \notin Range(s) THEN s
    ELSE AfterLastDash(SubSeq(s, Find(s, "-", 0) + 2, Len(s)))

\* two digits that denote a month of 01..12
IsMonthNumber(s) == Len(s) = 2 /\ IsDigit(s) /\ PyInt(s) \in 1..12

\* C7: for every record, the month part of the YYYY-MM string that
\* get_date_for_filename returns is two digits denoting a month in 01..12,
\* whatever the month field holds.
C7_MonthPartIsAMonth ==
    \A f \in DOMAIN output_dir \ old_files :
       IsMonthNumber(AfterLastDash(output_dir[f].date_str))

\* C8: every record returned has a non-empty entry type and a non-empty key,
\* and they are the word and the key of a record-start marker of the file: no
\* field of the body, a field named type or key included, changes them.
C8_TypeAndKeyComeFromTheMarker ==
    pc = "delete" =>
        \A n \in 1..Len(publications) :
           /\ publications[n][K_type] # <<>>
           /\ publications[n][K_key] # <<>>
           /\ \E m \in 1..Len(FindAll(bib, 1)) :
                 /\ FindAll(bib, 1)[m].entry_type = publications[n][K_type]
                 /\ FindAll(bib, 1)[m].key = publications[n][K_key]

\* the number of record-start markers in the file ('@' occurs nowhere else
\* in the records the files are made of)
CountMarkers(content) == Cardinality({k \in 1..Len(content) : content[k] = "@"})

\* C9: when the file begins with a record-start marker that is followed
\* directly by the line of the closing brace, and another record follows,
\* parse_bibtex returns a record of that type and key without fields, and
\* the records that follow as records of their own.
C9_RecordWithoutFieldsIsEmitted ==
    (pc = "delete" /\ OccursAt(bib, R_empty, 1) /\ Len(bib) > Len(R_empty)) =>
        /\ Len(publications) = CountMarkers(bib)
        /\ \E n \in 1..Len(publications) :
              publications[n] = NewEntry(S_misc, <<"e", "1">>)

\* whether the footer anchor occurs in the header part of the document: before
\* the first archive anchor, or anywhere when there is no archive anchor
FooterAnchorInHeader(doc) == \E k \in 1..Len(Header(doc)) : Header(doc)[k] = FooterAnchor

\* C10 as claimed: from any pre-existing index document and output directory,
\* a second run of main on the unchanged input changes neither the set of
\* output files nor the content of the index file.
C10_SecondRunChangesNothing ==
    [][run >= 2 => (DOMAIN output_dir' = DOMAIN output_dir /\ index_file' = index_file)]_vars

\* C10 as amended: from any output directory and any pre-existing index
\* document whose header part holds no footer anchor, a second run of main on
\* the unchanged input changes neither the set of output files nor the
\* content of the index file.  (Every run leaves the header part as it is, so
\* the condition on the pre-existing document holds of the document each
\* later run reads.)
C10_SecondRunChangesNothingAfterWellFormedIndex ==
    [][/\ ~FooterAnchorInHeader(index_file) => ~FooterAnchorInHeader(index_file')
       /\ FooterAnchorInHeader(index_file) => FooterAnchorInHeader(index_file')
       /\ (run >= 2 /\ ~FooterAnchorInHeader(index_file))
             => (DOMAIN output_dir' = DOMAIN output_dir /\ index_file' = index_file)]_vars

\* C10 witness: the second run has rewritten an index document that has both
\* anchors, the footer anchor behind the archive anchor, and shows an entry.
C10_Witness ==
    /\ run = 2
    /\ pc = "done"
    /\ ~FooterAnchorInHeader(index_file)
    /\ Footer(index_file) # <<>>
    /\ \E k \in 1..Len(index_file) : index_file[k].kind = "entry"
    /\ DOMAIN output_dir # {}

\* the body of the one record of a file of FieldRecords
BodyOf(content) == SubSeq(content, Len(RecordHead) + 1, Len(content) - Len(RecordTail))

\* the fields of that body, one per line of the body
FieldLines(content) ==
    LET lines == Split(BodyOf(content), <<"\n">>) IN
    [n \in 1..(Len(lines) - 1) |-> <<"\n">> \o lines[n + 1]]

N_ab == <<"a", "b">>
N_q == <<"q">>
V_x == <<"x">>
V_y == <<"y">>

\* the lower-cased name and the value of a well-formed field
WellFormedField(line) == line \in {F_brace, F_quote}
NameOfWellFormed(line) == IF line = F_brace THEN N_ab ELSE N_q
ValueOfWellFormed(line) == IF line = F_brace THEN V_x ELSE V_y

\* the name of a field whose value cannot be extracted
NameOfMalformed(line) ==
    IF line = F_bare THEN <<"m">>
    ELSE IF line = F_openbrace THEN <<"u">>
    ELSE IF line = F_openquote THEN <<"v">>
    ELSE <<"e">>

\* the value of field n of the body cannot be extracted: what follows '=' is
\* neither '{' nor '"', or the brace or quote it opens is not closed by
\* anything in the rest of the body
Unextractable(lines, n) ==
    \/ lines[n] \in {F_bare, F_novalue, F_openbrace}
    \/ /\ lines[n] = F_openquote
       /\ \A k \in (n + 1)..Len(lines) : "\"" \notin Range(lines[k])

\* every field of the body is well-formed or is one whose value cannot be
\* extracted (no quote opened by one field is closed by a later field)
FieldsAreWellFormedOrUnextractable(lines) ==
    \A n \in 1..Len(lines) : WellFormedField(lines[n]) \/ Unextractable(lines, n)

StrictlyIncreasing(ps) == \A k \in 1..(Len(ps) - 1) : ps[k] < ps[k + 1]

\* C11: in the field loop of parse_bibtex, a field whose value cannot be
\* extracted (what follows '=' is neither '{' nor '"', or the opening brace
\* or quote is never closed in the record body) stores nothing under its name
\* and does not abort the record: the scan position strictly increases from
\* one iteration to the next, and every well-formed field of the body, those
\* after the failing field included, is stored under its lower-cased name.
C11_UnextractableFieldIsSkipped ==
    LET lines == FieldLines(bib) IN
    (pc # "parse" /\ FieldsAreWellFormedOrUnextractable(lines)) =>
        /\ pc = "delete"
        /\ Len(publications) = 1
        /\ StrictlyIncreasing(ScanPositions(BodyOf(bib), 0))
        /\ \A n \in 1..Len(lines) :
              WellFormedField(lines[n]) =>
                 /\ NameOfWellFormed(lines[n]) \in DOMAIN publications[1]
                 /\ publications[1][NameOfWellFormed(lines[n])] = ValueOfWellFormed(lines[n])
        /\ \A n \in 1..Len(lines) :
              ~WellFormedField(lines[n]) =>
                 NameOfMalformed(lines[n]) \notin DOMAIN publications[1]
        /\ DOMAIN publications[1] \subseteq {K_type, K_key, N_ab, N_q}

\* a record is parsed in which a field with an unclosed brace and a field
\* with a bare value are followed by a well-formed field, which is stored
\* while the loop made more iterations than the body has fields
C11_Witness ==
    LET lines == FieldLines(bib) IN
    /\ pc = "delete"
    /\ Len(publications) = 1
    /\ FieldsAreWellFormedOrUnextractable(lines)
    /\ \E i, j, k \in 1..Len(lines) :
          /\ i < k /\ j < k
          /\ lines[i] = F_openbrace
          /\ lines[j] \in {F_bare, F_novalue}
          /\ WellFormedField(lines[k])
          /\ NameOfWellFormed(lines[k]) \in DOMAIN publications[1]
    /\ Len(ScanPositions(BodyOf(bib), 0)) > Len(lines) + 1

====
